---- MODULE Spec2Model ----
(***************************************************************************)
(* Message-dispatch facade: MessageHandlerRequest (builder),               *)
(* MessageServiceFactory, MessageServiceBase.send and its three services,  *)
(* MessageHandler.handle and MessageHandlerResponse.                       *)
(*                                                                         *)
(* Python values are records [t, v]: t is the name of the value's type and *)
(* v its content as a sequence of one-character strings (a str), or a      *)
(* fixed token for the values whose content never matters.                 *)
(***************************************************************************)
EXTENDS Integers, Sequences, FiniteSets, TLC

VARIABLES requests, last, held

vars == <<requests, last, held>>

---------------------------------------------------------------------------
(* Bounds of the model *)

\* longest batch a request is grown to under Spec
MaxBatch == 3
\* longest batch a request is grown to under SpecHist
MaxHistBatch == 2

---------------------------------------------------------------------------
(* Python values *)

Str(s) == [t |-> "str", v |-> s]
Int0 == [t |-> "int", v |-> <<"0">>]
None == [t |-> "NoneType", v |-> <<>>]

IsStr(x) == x.t = "str"

\* ch in message
Contains(message, ch) == \E i \in DOMAIN message.v : message.v[i] = ch

\* message.replace(ch, '', 1): only the first occurrence goes
RemoveFirst(message, ch) ==
    IF \E i \in DOMAIN message.v : message.v[i] = ch
    THEN LET k == CHOOSE i \in DOMAIN message.v :
                      message.v[i] = ch /\ \A j \in 1..(i - 1) : message.v[j] # ch
         IN Str(SubSeq(message.v, 1, k - 1) \o SubSeq(message.v, k + 1, Len(message.v)))
    ELSE message

\* message.replace(ch, '')
Remove(message, ch) == Str(SelectSeq(message.v, LAMBDA c : c # ch))

\* list(s) for a str s: its one-character strings
Chars(s) == [i \in DOMAIN s.v |-> Str(<<s.v[i]>>)]

SERVICE_TELEGRAM == Str(<<"telegram">>)
SERVICE_WHATSAPP == Str(<<"whatsapp">>)
SERVICE_PUSH == Str(<<"push">>)

\* the unregistered identifier of test_invalid_service
SERVICE_INVALID == Str(<<"invalid-service123">>)

---------------------------------------------------------------------------
(* Exceptions: src.utils.MessagedException keeps its text in .message *)

MessagedException(cls, message) == [cls |-> cls, message |-> message]

NoError == [cls |-> "NoneType", message |-> ""]

MessageValidation(message) == MessagedException("MessageValidation", message)

MessageServiceException(message) == MessagedException("MessageServiceException", message)

MessageException(message) == MessagedException("MessageException", message)

---------------------------------------------------------------------------
(* Message services *)

ServiceClasses == {"TelegramMessageService", "WhatsAppMessageService", "PushMessageService"}

\* a service object: its class and the delivery primitive behind _send
Service(cls, transport) == [cls |-> cls, transport |-> transport]

NoService == [cls |-> "NoneType", transport |-> "none"]

\* issubclass(type(service), MessageServiceBase)
IsMessageService(service) == service.cls \in ServiceClasses

transform(service, message) ==
    CASE service.cls = "TelegramMessageService" -> Remove(message, "*")
      [] service.cls = "WhatsAppMessageService" -> Remove(message, "!")
      [] service.cls = "PushMessageService" -> Remove(message, "?")
      [] OTHER -> message

validate(service, message) ==
    CASE service.cls = "WhatsAppMessageService" /\ Contains(message, "*") ->
            MessageValidation("Bullets in the text are not allowed")
      [] service.cls = "PushMessageService" /\ Contains(message, ";") ->
            MessageValidation("Semicolumn in the text are not allowed")
      [] OTHER -> NoError

\* _send of the three services: every message is reported sent
mock_send(messages) == [i \in DOMAIN messages |-> <<messages[i], NoError>>]

\* a _send that keeps the contract (one result per input, input order) over a
\* transport that fails the messages at the positions in failed
unreliable_send(messages, failed) ==
    [i \in DOMAIN messages |->
        <<messages[i],
          IF i \in failed THEN MessageServiceException("Delivery failed") ELSE NoError>>]

service_send(service, messages, failed) ==
    IF service.transport = "unreliable"
    THEN unreliable_send(messages, failed)
    ELSE mock_send(messages)

\* zip(a, b): pairs up to the shorter length
Zip(a, b) ==
    LET n == IF Len(a) < Len(b) THEN Len(a) ELSE Len(b)
    IN [i \in 1..n |-> <<a[i], b[i]>>]

Triple(orig_mess, trans_mess, err) ==
    [orig_mess |-> orig_mess, trans_mess |-> trans_mess, err |-> err]

\* the outcome of a call: what it raised, what it returned, what it did
Raised(exc) ==
    [raised |-> exc, result |-> <<>>, validated |-> <<>>, transformed |-> <<>>,
     delivered |-> <<>>]

\* only the first message is looked at
first_is_str(messages) == messages = <<>> \/ IsStr(messages[1])

\* the assertion of send: no message of a type other than str
all_str(messages) == \A i \in DOMAIN messages : IsStr(messages[i])

\* the refused messages are forgotten
extend_nothing(result, rejects) == result

\* the refused messages are put first
extend_front(result, rejects) == rejects \o result

\* result.extend(the refused messages)
extend(result, rejects) == result \o rejects

\* MessageServiceBase.send
send(service, messages, failed) ==
    IF ~all_str(messages)
    THEN Raised("AssertionError")
    ELSE
      LET validated_messages ==
              [i \in DOMAIN messages |-> <<messages[i], validate(service, messages[i])>>]
          accepted == SelectSeq(validated_messages, LAMBDA p : p[2] = NoError)
          rejected == SelectSeq(validated_messages, LAMBDA p : p[2] # NoError)
          appropriate_messages == [i \in DOMAIN accepted |-> accepted[i][1]]
          to_send == [i \in DOMAIN appropriate_messages |->
                         transform(service, appropriate_messages[i])]
          send_result == service_send(service, to_send, failed)
          zipped == Zip(appropriate_messages, send_result)
          result == [i \in DOMAIN zipped |->
                        Triple(zipped[i][1], zipped[i][2][1], zipped[i][2][2])]
          rejects == [i \in DOMAIN rejected |->
                         Triple(rejected[i][1], rejected[i][1], rejected[i][2])]
      IN [raised |-> "none",
          result |-> extend(result, rejects),
          validated |-> messages,
          transformed |-> appropriate_messages,
          delivered |-> to_send]

---------------------------------------------------------------------------
(* Factories and handlers *)

\* the handler objects of the model and the factory each was constructed with
Handlers == {"h1", "h2", "hc", "hu"}

factory_of(h) ==
    CASE h \in {"h1", "h2"} -> "MessageServiceFactory"
      [] h = "hc" -> "CorruptedServiceFactory"
      [] h = "hu" -> "UnreliableServiceFactory"

Created(service) == [raised |-> "none", service |-> service]

\* an unknown type falls through to the first service
create_service_default(factory, service_type) ==
    IF factory = "CorruptedServiceFactory"
    THEN Created(NoService)
    ELSE IF service_type = SERVICE_WHATSAPP
    THEN Created(Service("WhatsAppMessageService", "mock"))
    ELSE IF service_type = SERVICE_PUSH
    THEN Created(Service("PushMessageService", "mock"))
    ELSE Created(Service("TelegramMessageService", "mock"))

\* an unknown type is asserted against instead of reported
create_service_assert(factory, service_type) ==
    IF factory = "CorruptedServiceFactory"
    THEN Created(NoService)
    ELSE IF service_type = SERVICE_TELEGRAM
    THEN Created(Service("TelegramMessageService", "mock"))
    ELSE IF service_type = SERVICE_WHATSAPP
    THEN Created(Service("WhatsAppMessageService", "mock"))
    ELSE IF service_type = SERVICE_PUSH
    THEN Created(Service("PushMessageService", "mock"))
    ELSE [raised |-> "AssertionError", service |-> NoService]

\* the factory keeps the service of the call before and hands it out again
create_service_cached(factory, service_type) ==
    IF service_type \notin {SERVICE_TELEGRAM, SERVICE_WHATSAPP, SERVICE_PUSH}
    THEN [raised |-> "MessageHandlerException", service |-> NoService]
    ELSE IF last.service \in ServiceClasses
    THEN Created(Service(last.service, "mock"))
    ELSE IF service_type = SERVICE_TELEGRAM
    THEN Created(Service("TelegramMessageService", "mock"))
    ELSE IF service_type = SERVICE_WHATSAPP
    THEN Created(Service("WhatsAppMessageService", "mock"))
    ELSE Created(Service("PushMessageService", "mock"))

\* MessageServiceFactory.create_service, and the overriding factories
create_service(factory, service_type) ==
    CASE factory = "CorruptedServiceFactory" -> Created(NoService)
      [] OTHER ->
        LET transport == IF factory = "UnreliableServiceFactory" THEN "unreliable" ELSE "mock"
        IN IF service_type = SERVICE_TELEGRAM
           THEN Created(Service("TelegramMessageService", transport))
           ELSE IF service_type = SERVICE_WHATSAPP
           THEN Created(Service("WhatsAppMessageService", transport))
           ELSE IF service_type = SERVICE_PUSH
           THEN Created(Service("PushMessageService", transport))
           ELSE [raised |-> "MessageHandlerException", service |-> NoService]

---------------------------------------------------------------------------
(* Request, status, response *)

ReqIds == {"r1", "r2"}

\* values passed to handle that are no MessageHandlerRequest
NonRequests == {"0", "''", "None"}

\* MessageHandlerRequest.__init__
NewRequest == [type |-> Str(<<>>), batch |-> <<>>]

MessageStatus(original_message, transformed_message, error) ==
    [original_message |-> original_message,
     transformed_message |-> transformed_message,
     error |-> error]

is_sent(status) == status.error = NoError

\* the internal error's text is replaced by a fixed one
convert_exception_generic(exception) ==
    IF exception # NoError THEN MessageException("Message has not been sent") ELSE NoError

\* MessageHandler._convert_exception
convert_exception(exception) ==
    IF exception # NoError THEN MessageException(exception.message) ELSE NoError

\* every status is counted as sent
MessageHandlerResponse_count_all(request, message_statuses) ==
    [request |-> request,
     message_statuses |-> message_statuses,
     messages_are_sent |-> Len(message_statuses)]

\* MessageHandlerResponse.__init__: request is a reference to the request object
MessageHandlerResponse(request, message_statuses) ==
    [request |-> request,
     message_statuses |-> message_statuses,
     messages_are_sent |-> Len(SelectSeq(message_statuses, is_sent))]

\* the accessors of a response
messages_are_sent(response) == response.messages_are_sent

message_statuses(response) == response.message_statuses

get_request(response) == requests[response.request]

Failure(exc, service) ==
    [raised |-> exc, response |-> <<>>, service |-> service.cls, result |-> <<>>,
     validated |-> <<>>, transformed |-> <<>>, delivered |-> <<>>]

\* MessageHandler.handle on the object named x, with factory the handler's factory
handle(factory, x, failed) ==
    IF x \notin ReqIds
    THEN Failure("AssertionError", NoService)
    ELSE
      LET created == create_service(factory, requests[x].type)
          service == created.service
      IN IF created.raised # "none"
         THEN Failure(created.raised, NoService)
         ELSE IF ~IsMessageService(service)
         THEN Failure("MessageHandlerException", service)
         ELSE
           LET sent == send(service, requests[x].batch, failed)
               statuses == [i \in DOMAIN sent.result |->
                               MessageStatus(sent.result[i].orig_mess,
                                             sent.result[i].trans_mess,
                                             convert_exception(sent.result[i].err))]
           IN IF sent.raised # "none"
              THEN Failure(sent.raised, service)
              ELSE [raised |-> "none",
                    response |-> <<MessageHandlerResponse(x, statuses)>>,
                    service |-> service.cls,
                    result |-> sent.result,
                    validated |-> sent.validated,
                    transformed |-> sent.transformed,
                    delivered |-> sent.delivered]

---------------------------------------------------------------------------
(* Inputs *)

\* messages handed to append_message and append_messages
Values ==
    {Str(<<"T">>), Str(<<"*", "!", "*">>), Str(<<"!", "T", "?">>), Str(<<";", "?">>),
     Int0, None}

HistValues == {Str(<<"T">>), Str(<<"*", "!", "*">>)}

\* service types handed to set_service_type
TypeArgs == {SERVICE_TELEGRAM, SERVICE_WHATSAPP, SERVICE_PUSH, SERVICE_INVALID, Int0, None}

HistTypeArgs == {SERVICE_TELEGRAM, SERVICE_WHATSAPP}

SeqsUpTo(S, n) == UNION {[1..k -> S] : k \in 0..n}

\* a list object holding items
List(items) == [t |-> "list", v |-> <<>>, items |-> items]

\* a value that is no list, as an argument of append_messages
Scalar(x) == [t |-> x.t, v |-> x.v, items |-> <<>>]

ListArgs == {List(items) : items \in SeqsUpTo(Values, 2)}
                \cup {Scalar(Str(<<"T">>)), Scalar(Int0), Scalar(None)}

\* the whole batches a request is built from in one append_messages call
HistListArgs ==
    {List(<<>>),
     List(<<Str(<<"T">>), Str(<<"*", "!", "*">>)>>),
     List(<<Str(<<"*", "!", "*">>), Str(<<"T">>)>>)}

\* iter(arg), as list.extend consumes it
Iterate(arg) ==
    CASE arg.t = "list" -> [raised |-> "none", items |-> arg.items]
      [] arg.t = "str" -> [raised |-> "none", items |-> Chars(arg)]
      [] OTHER -> [raised |-> "TypeError", items |-> <<>>]

---------------------------------------------------------------------------
(* State: requests maps each request object to its fields; last is the most
   recent call with its outcome; held is the response the caller has kept
   from an earlier handle call, with the request's fields at that call. *)

Call(op, target, handler, argt, at, failed, out) ==
    [op |-> op, target |-> target, handler |-> handler, argt |-> argt, at |-> at,
     failed |-> failed, raised |-> out.raised, response |-> out.response,
     service |-> out.service, result |-> out.result, validated |-> out.validated,
     transformed |-> out.transformed, delivered |-> out.delivered]

Returned == Failure("none", NoService)

Init ==
    /\ requests = [r \in ReqIds |-> NewRequest]
    /\ last = Call("__init__", "none", "none", "none", <<>>, {}, Returned)
    /\ held = <<>>

\* the type is stored without the assertion
set_service_type_unchecked(r, service_type) ==
    /\ requests' = [requests EXCEPT ![r].type = service_type]
    /\ last' = Call("set_service_type", r, "none", service_type.t, <<>>, {}, Returned)
    /\ UNCHANGED held

\* MessageHandlerRequest.set_service_type
set_service_type(r, service_type) ==
    /\ IF service_type.t # "str"
       THEN /\ last' = Call("set_service_type", r, "none", service_type.t, <<>>, {},
                            Failure("AssertionError", NoService))
            /\ UNCHANGED requests
       ELSE /\ requests' = [requests EXCEPT ![r].type = service_type]
            /\ last' = Call("set_service_type", r, "none", service_type.t, <<>>, {}, Returned)
    /\ UNCHANGED held

\* MessageHandlerRequest.append_message
append_message(r, message) ==
    /\ requests' = [requests EXCEPT ![r].batch = Append(@, message)]
    /\ last' = Call("append_message", r, "none", message.t, <<>>, {}, Returned)
    /\ UNCHANGED held

\* MessageHandlerRequest.append_messages
append_messages(r, messages) ==
    /\ LET it == Iterate(messages)
       IN IF it.raised # "none"
          THEN /\ last' = Call("append_messages", r, "none", messages.t, <<>>, {},
                               Failure(it.raised, NoService))
               /\ UNCHANGED requests
          ELSE /\ requests' = [requests EXCEPT ![r].batch = @ \o it.items]
               /\ last' = Call("append_messages", r, "none", messages.t, <<>>, {}, Returned)
    /\ UNCHANGED held

\* MessageHandlerRequest.clear_messages
clear_messages(r) ==
    /\ requests' = [requests EXCEPT ![r].batch = <<>>]
    /\ last' = Call("clear_messages", r, "none", "none", <<>>, {}, Returned)
    /\ UNCHANGED held

\* the subsets of messages the transport behind handler h may fail
Failures(h, x) ==
    IF factory_of(h) = "UnreliableServiceFactory" /\ x \in ReqIds
    THEN SUBSET (1..Len(requests[x].batch))
    ELSE {{}}

\* a call h.handle(x)
Handle(h, x) ==
    \E failed \in Failures(h, x) :
        /\ last' = Call("handle", x, h, IF x \in ReqIds THEN "MessageHandlerRequest" ELSE x,
                        IF x \in ReqIds THEN <<requests[x]>> ELSE <<>>, failed,
                        handle(factory_of(h), x, failed))
        /\ UNCHANGED <<requests, held>>

\* the caller keeps the response handle has just returned
Hold ==
    /\ last.op = "handle"
    /\ last.response # <<>>
    /\ held' = <<[response |-> last.response[1], at |-> last.at[1],
                   handler |-> last.handler]>>
    /\ held # held'
    /\ UNCHANGED <<requests, last>>

Next ==
    \/ \E st \in TypeArgs : set_service_type("r1", st)
    \/ \E m \in Values :
          /\ Len(requests["r1"].batch) < MaxBatch
          /\ append_message("r1", m)
    \/ \E ms \in ListArgs :
          /\ Len(requests["r1"].batch) + Len(Iterate(ms).items) <= MaxBatch
          /\ append_messages("r1", ms)
    \/ clear_messages("r1")
    \/ \E h \in {"h1", "hc", "hu"}, x \in {"r1"} \cup NonRequests : Handle(h, x)

Spec == Init /\ [][Next]_vars

NextHist ==
    \/ \E r \in ReqIds, st \in HistTypeArgs : set_service_type(r, st)
    \/ \E m \in HistValues :
          /\ Len(requests["r1"].batch) < MaxHistBatch
          /\ append_message("r1", m)
    \/ \E r \in ReqIds, ms \in HistListArgs :
          /\ Len(requests[r].batch) + Len(ms.items) <= MaxHistBatch
          /\ append_messages(r, ms)
    \/ \E r \in ReqIds : clear_messages(r)
    \/ \E h \in {"h1", "h2"}, r \in ReqIds : Handle(h, r)
    \/ Hold

SpecHist == Init /\ [][NextHist]_vars

---------------------------------------------------------------------------
(* What the claims speak of, stated apart from the operators above *)

Registered == {SERVICE_TELEGRAM, SERVICE_WHATSAPP, SERVICE_PUSH}

\* the character a service type removes, and the one it refuses
Marker(service_type) ==
    CASE service_type = SERVICE_TELEGRAM -> "*"
      [] service_type = SERVICE_WHATSAPP -> "!"
      [] service_type = SERVICE_PUSH -> "?"

Rejects(service_type, message) ==
    \/ service_type = SERVICE_WHATSAPP /\ \E i \in 1..Len(message.v) : message.v[i] = "*"
    \/ service_type = SERVICE_PUSH /\ \E i \in 1..Len(message.v) : message.v[i] = ";"

RECURSIVE Strip(_, _)
Strip(s, ch) ==
    IF s = <<>> THEN <<>>
    ELSE IF Head(s) = ch THEN Strip(Tail(s), ch)
    ELSE <<Head(s)>> \o Strip(Tail(s), ch)

Positions(seq, P(_)) == {i \in DOMAIN seq : P(seq[i])}

AllStr(batch) == \A i \in DOMAIN batch : batch[i].t = "str"

\* the last call: handle on a request object
HandledRequest == last.op = "handle" /\ last.target \in ReqIds

CallType == last.at[1].type

CallBatch == last.at[1].batch

Answered == last.raised = "none" /\ last.response # <<>>

Statuses == last.response[1].message_statuses

SentCount == last.response[1].messages_are_sent

Accepted == SelectSeq(CallBatch, LAMBDA m : ~Rejects(CallType, m))

Refused == SelectSeq(CallBatch, LAMBDA m : Rejects(CallType, m))

\* handle of a handler over MessageServiceFactory, a registered type, a batch of str
PlainCall ==
    /\ HandledRequest
    /\ factory_of(last.handler) = "MessageServiceFactory"
    /\ CallType \in Registered
    /\ AllStr(CallBatch)

NothingDone ==
    /\ last.response = <<>>
    /\ last.validated = <<>>
    /\ last.transformed = <<>>
    /\ last.delivered = <<>>
    /\ last.result = <<>>

---------------------------------------------------------------------------
\* C1: for a registered service type and a batch of str with N messages passing
\* the service's validation and M refused, handle returns a response with
\* messages_are_sent = N and N + M statuses, and every message is the original
\* of as many sent statuses as it occurs accepted in the batch, and of as many
\* not-sent statuses as it occurs refused.
C1_Counts ==
    PlainCall =>
        /\ Answered
        /\ SentCount = Len(Accepted)
        /\ Len(Statuses) = Len(Accepted) + Len(Refused)
        /\ \A k \in DOMAIN CallBatch :
              LET m == CallBatch[k]
              IN /\ Cardinality({i \in DOMAIN Statuses :
                        Statuses[i].original_message = m /\ Statuses[i].error = NoError})
                      = Cardinality(Positions(Accepted, LAMBDA a : a = m))
                 /\ Cardinality({i \in DOMAIN Statuses :
                        Statuses[i].original_message = m /\ Statuses[i].error # NoError})
                      = Cardinality(Positions(Refused, LAMBDA a : a = m))

\* a call with two accepted copies of one message around a refused one
C1_Witness ==
    /\ PlainCall
    /\ Answered
    /\ Len(CallBatch) = 3
    /\ CallBatch[1] = CallBatch[3]
    /\ ~Rejects(CallType, CallBatch[1])
    /\ Rejects(CallType, CallBatch[2])

C3_Transform ==
    (HandledRequest /\ Answered) =>
        \A i \in DOMAIN Statuses :
            /\ Statuses[i].error = NoError =>
                  Statuses[i].transformed_message
                      = Str(Strip(Statuses[i].original_message.v, Marker(CallType)))
            /\ Rejects(CallType, Statuses[i].original_message) =>
                  /\ Statuses[i].transformed_message = Statuses[i].original_message
                  /\ Statuses[i].error # NoError

\* a sent message that lost its marker, and a refused one that keeps it
C3_Witness ==
    /\ HandledRequest
    /\ Answered
    /\ \E i \in DOMAIN Statuses :
          /\ Statuses[i].error = NoError
          /\ Len(Statuses[i].transformed_message.v) < Len(Statuses[i].original_message.v)
    /\ \E i \in DOMAIN Statuses :
          /\ Rejects(CallType, Statuses[i].original_message)
          /\ \E k \in DOMAIN Statuses[i].original_message.v :
                Statuses[i].original_message.v[k] = Marker(CallType)

\* C4: handle on a request answers only when the factory resolves the service
\* type to a message service; for an unregistered type, or a factory that
\* returns no message service, it raises MessageHandlerException, validates,
\* transforms and delivers nothing, and gives no response.
C4_Unresolved ==
    HandledRequest =>
        /\ (CallType \notin Registered \/ factory_of(last.handler) = "CorruptedServiceFactory")
              => (last.raised = "MessageHandlerException" /\ NothingDone)
        /\ Answered =>
              (CallType \in Registered /\ last.service \in ServiceClasses)

\* an unregistered type with a full batch that holds a non-str message
C4_Witness ==
    /\ HandledRequest
    /\ CallType = SERVICE_INVALID
    /\ Len(CallBatch) = 3
    /\ ~AllStr(CallBatch)
    /\ last.raised = "MessageHandlerException"

\* C5 as stated: a batch holding a non-str message makes handle raise
\* AssertionError, whatever the service type and the factory.
C5_AlwaysAssertion ==
    (HandledRequest /\ ~AllStr(CallBatch)) =>
        (last.raised = "AssertionError" /\ NothingDone)

\* C5, amended: a batch holding a non-str message at any position makes handle
\* fail with nothing validated, transformed or delivered, no response and no
\* status: with AssertionError when the factory has resolved the service type
\* to a message service, with MessageHandlerException when it has not.
C5_NonStrBatch ==
    (HandledRequest /\ ~AllStr(CallBatch)) =>
        /\ NothingDone
        /\ IF CallType \in Registered /\ factory_of(last.handler) # "CorruptedServiceFactory"
           THEN last.raised = "AssertionError"
           ELSE last.raised = "MessageHandlerException"

\* a non-str message last in a batch of otherwise accepted str messages
C5_Witness ==
    /\ HandledRequest
    /\ factory_of(last.handler) = "MessageServiceFactory"
    /\ CallType = SERVICE_WHATSAPP
    /\ Len(CallBatch) = 3
    /\ CallBatch[1].t = "str" /\ ~Rejects(CallType, CallBatch[1])
    /\ CallBatch[2].t = "str"
    /\ CallBatch[3].t # "str"
    /\ last.raised = "AssertionError"

\* C6 as stated: every request holds a str service type and only str messages.
C6_AllStrAtBuild ==
    \A r \in ReqIds : requests[r].type.t = "str" /\ AllStr(requests[r].batch)

\* C6, amended: after any builder calls the service type is a str, and
\* set_service_type given a non-str raises AssertionError and leaves the
\* request as it was; append_message and append_messages check no message:
\* they return normally and store a non-str message as given.
C6_TypeOnly ==
    [][/\ \A r \in ReqIds : requests'[r].type.t = "str"
       /\ (last'.op = "set_service_type" /\ last'.argt # "str") =>
              (last'.raised = "AssertionError" /\ requests' = requests)
       /\ (last'.op = "set_service_type" /\ last'.argt = "str") =>
              last'.raised = "none"
       /\ (last'.op = "append_message") =>
              /\ last'.raised = "none"
              /\ Len(requests'[last'.target].batch) = Len(requests[last'.target].batch) + 1
              /\ requests'[last'.target].batch[Len(requests'[last'.target].batch)].t
                    = last'.argt
       /\ (last'.op = "append_messages" /\ last'.argt = "list") =>
              /\ last'.raised = "none"
              /\ \A i \in DOMAIN requests[last'.target].batch :
                    requests'[last'.target].batch[i] = requests[last'.target].batch[i]
      ]_vars

\* set_service_type has just refused a non-str on a request that has a type
\* set and holds a non-str message
C6_Witness ==
    /\ last.op = "set_service_type"
    /\ last.raised = "AssertionError"
    /\ requests["r1"].type = SERVICE_PUSH
    /\ ~AllStr(requests["r1"].batch)

\* C7 as stated: handle on a value that is no request, or on a request whose
\* service type was never set, raises the precondition failure.
C7_AlwaysPrecondition ==
    (last.op = "handle" /\ (last.target \notin ReqIds \/ CallType = Str(<<>>))) =>
        (last.raised = "AssertionError" /\ NothingDone)

\* C7, amended: handle on a value that is no request raises AssertionError;
\* handle on a request whose service type was never set raises
\* MessageHandlerException, the error of an unknown service type; neither
\* gives a response.
C7_Malformed ==
    /\ (last.op = "handle" /\ last.target \notin ReqIds) =>
          (last.raised = "AssertionError" /\ NothingDone)
    /\ (HandledRequest /\ CallType = Str(<<>>)) =>
          (last.raised = "MessageHandlerException" /\ NothingDone)

\* handle on a request that holds messages and never had its type set
C7_Witness ==
    /\ HandledRequest
    /\ factory_of(last.handler) = "MessageServiceFactory"
    /\ CallType = Str(<<>>)
    /\ Len(CallBatch) = 2
    /\ last.raised = "MessageHandlerException"

\* C8: over a delivery primitive that answers one result per input in input
\* order and fails any subset: handle answers with one status per message; a
\* status has an error exactly when its message was refused by validation or
\* failed delivery, the error's text being the internal error's text;
\* messages_are_sent is the number of statuses without error; and each status
\* depends on its own message and its own delivery alone.
C8_DeliveryFailures ==
    (HandledRequest /\ CallType \in Registered /\ AllStr(CallBatch)
        /\ factory_of(last.handler) # "CorruptedServiceFactory") =>
        /\ Answered
        /\ Len(Statuses) = Len(CallBatch)
        /\ Len(last.result) = Len(Statuses)
        /\ \A i \in 1..Len(Accepted) :
              /\ Statuses[i].original_message = Accepted[i]
              /\ Statuses[i].transformed_message
                    = Str(Strip(Accepted[i].v, Marker(CallType)))
              /\ (Statuses[i].error # NoError) <=> (i \in last.failed)
        /\ \A j \in 1..Len(Refused) :
              /\ Statuses[Len(Accepted) + j].original_message = Refused[j]
              /\ Statuses[Len(Accepted) + j].error # NoError
        /\ \A i \in DOMAIN Statuses :
              /\ (Statuses[i].error = NoError) <=> (last.result[i].err = NoError)
              /\ Statuses[i].error # NoError =>
                    /\ Statuses[i].error.cls = "MessageException"
                    /\ Statuses[i].error.message = last.result[i].err.message
                    /\ last.result[i].err.message # ""
        /\ SentCount = Cardinality({i \in DOMAIN Statuses : Statuses[i].error = NoError})
        /\ SentCount = Len(Accepted) - Cardinality(last.failed \cap (1..Len(Accepted)))

\* a refused message, a delivered one and one that failed delivery in one call
C8_Witness ==
    /\ HandledRequest
    /\ Answered
    /\ factory_of(last.handler) = "UnreliableServiceFactory"
    /\ Len(CallBatch) = 3
    /\ Len(Refused) = 1
    /\ last.failed = {2}
    /\ SentCount = 1
    /\ Statuses[2].error.message = "Delivery failed"

---------------------------------------------------------------------------
(* Two calls: the response the caller holds and the last call *)

HeldResponse == held[1].response

\* the outcome of a status: original, transformed, error present, error text
Outcome(status) ==
    <<status.original_message, status.transformed_message,
      status.error # NoError, status.error.message>>

Outcomes(response) ==
    [i \in DOMAIN message_statuses(response) |-> Outcome(message_statuses(response)[i])]

C10_Snapshot ==
    [][/\ (last'.op = "handle" /\ last' # last) => requests' = requests
       /\ (held # <<>> /\ last' # last) =>
             /\ held' # <<>>
             /\ message_statuses(held'[1].response) = message_statuses(HeldResponse)
             /\ messages_are_sent(held'[1].response) = messages_are_sent(HeldResponse)
       /\ (held' # <<>>) =>
             messages_are_sent(held'[1].response)
                = Cardinality({i \in DOMAIN message_statuses(held'[1].response) :
                                  is_sent(message_statuses(held'[1].response)[i])})
       /\ (last'.op = "handle" /\ last'.response # <<>>) =>
             messages_are_sent(last'.response[1])
                = Cardinality({i \in DOMAIN message_statuses(last'.response[1]) :
                                  is_sent(message_statuses(last'.response[1])[i])})
      ]_vars

\* a held response with a sent and a refused status whose request has since
\* been retyped and emptied and handled again
C10_Witness ==
    /\ held # <<>>
    /\ Len(message_statuses(HeldResponse)) = 2
    /\ messages_are_sent(HeldResponse) = 1
    /\ get_request(HeldResponse).batch = <<>>
    /\ get_request(HeldResponse).type # held[1].at.type
    /\ HandledRequest
    /\ last.target = HeldResponse.request
    /\ Answered
    /\ Statuses = <<>>

====
